---- MODULE Spec2Model ----
(***************************************************************************)
(* Model of train.py: 3D image classification from CT scans.               *)
(*                                                                         *)
(* The script is one control flow: list the two class directories, process *)
(* every scan, label, split at a fixed index, build the two tf.data        *)
(* pipelines, fit with the ModelCheckpoint / EarlyStopping callbacks,      *)
(* reload the checkpoint and predict on x_val[0].                          *)
(*                                                                         *)
(* Real numbers are fixed point: a voxel intensity in [0, 1] is an integer *)
(* in 0..VScale, a probability is an integer in 0..PScale, a normalized    *)
(* value is a numerator over (max - min).                                  *)
(***************************************************************************)
EXTENDS Integers, Sequences, FiniteSets, TLC

VARIABLES
    pc,                   \* position of the script
    normal_scan_paths,    \* os.listdir of MosMedData/CT-0
    abnormal_scan_paths,  \* os.listdir of MosMedData/CT-23
    abnormal_scans, normal_scans, abnormal_labels, normal_labels,
    x_train, y_train, x_val, y_val,
    train_loader, validation_loader,
    elem,                 \* the element a dataset pipeline yielded last
    max_epochs,           \* args.max_epochs
    epoch,                \* epochs of model.fit completed
    logs,                 \* the logs of the last epoch, as the callbacks get them
    ckpt_best,            \* checkpoint_cb.best
    file,                 \* the file 3d_image_classification.h5
    es_best, wait,        \* early_stopping_cb.best and .wait
    stop_training,        \* model.stop_training
    weights,              \* the parameters the model holds
    history,              \* what the run has reported so far
    sample, prediction, report,   \* the single-scan prediction
    volume_in, volume_out,        \* normalize: argument and result
    img_shape, zoom_err, out_shape   \* resize_volume: argument, rounding error, result

dataVars == <<normal_scan_paths, abnormal_scan_paths, abnormal_scans, normal_scans,
              abnormal_labels, normal_labels, x_train, y_train, x_val, y_val>>
pipeVars == <<train_loader, validation_loader, elem>>
fitVars == <<max_epochs, epoch, logs, ckpt_best, file, es_best, wait, stop_training,
             weights, history, sample, prediction, report>>
fnVars == <<volume_in, volume_out, img_shape, zoom_err, out_shape>>
vars == <<pc, dataVars, pipeVars, fitVars, fnVars>>

None == "None"
\* no element yielded yet, or the last one was taken
NoElem == [part |-> "none"]

\* ---------------------------------------------------------------- bounds
\* most scans a class directory holds
MaxScans == 100
\* the pipeline runs use the class sizes 0 and SplitAt-1..SplitAt+PipeExtra
PipeExtra == 1
\* fixed point: the intensity 1.0
VScale == 2
\* the voxel positions of a modelled volume
VoxIdx == {1, 2}

\* voxel values just outside the clipping range that normalize is tried on
HUMargin == 2
\* the clipping range is tried at HUCuts + 1 evenly spaced values
HUCuts == 7
\* the small sizes an input axis of resize_volume is tried at (1..MaxDim)
MaxDim == 3
\* fixed point of the zoomed size before rounding: units per voxel
FixScale == 1000
\* floating-point error of the zoomed size before rounding, in 1/FixScale voxels
FloatErr == 1
\* largest args.max_epochs
MaxEpochs == 18
\* validation loss takes the values 0..MaxLoss, or is NaN
MaxLoss == 1
\* validation accuracy takes the values 0 and MaxAcc
MaxAcc == 1
\* fixed point: the probability 1.0
PScale == 3

\* ---------------------------------------------------------------- helpers
Min2(a, b) == IF a <= b THEN a ELSE b
Max2(a, b) == IF a >= b THEN a ELSE b

\* ---------------------------------------------------------------- scans
\* The path of the k-th file of a class directory.
ScanPath(dir, k) == [dir |-> dir, k |-> k]

\* os.listdir: n files of one class directory.
ListDir(dir, n) == [k \in 1..n |-> ScanPath(dir, k)]

\* process_scan: read, normalize, resize. A volume is named by the file it
\* was read from; Voxels gives its content.
process_scan(path) == [of |-> path]

\* The voxels of a processed volume: values in [0, 1], a different content
\* for different files.
Voxels(volume) ==
    [i \in VoxIdx |->
        (volume.of.k + i + (IF volume.of.dir = "CT-23" THEN 1 ELSE 0)) % (VScale + 1)]

\* ---------------------------------------------------------------- split
\* The index the script splits every class at.
SplitAt == 70

\* a[:70]
TrainPart(a) == SubSeq(a, 1, Min2(SplitAt, Len(a)))

\* a[70:], with an off-by-one start (a[69:]).
ValPartOverlap(a) == SubSeq(a, SplitAt, Len(a))
\* the last 30 of a class (a[-30:]) as its validation part
ValPartLast(a) == SubSeq(a, Max2(1, Len(a) - 29), Len(a))
\* a[70:]
ValPart(a) == SubSeq(a, SplitAt + 1, Len(a))

\* np.concatenate of the labels in the wrong class order
ConcatSwapped(a, b) == b \o a
\* np.concatenate((a, b), axis=0)
Concat(a, b) == a \o b

\* np.concatenate of two label arrays
ConcatLabels(a, b) == Concat(a, b)

\* The number of dimensions of np.array([process_scan(path) for path in
\* paths]): a list of volumes gives a 4-dimensional array, the empty list a
\* 1-dimensional one of shape (0,). A slice has the dimensions of its array.
Ndim(scans) == IF Len(scans) = 0 THEN 1 ELSE 4

\* np.concatenate raises ValueError unless its arrays have the same number
\* of dimensions.
CanConcat(a, b) == Ndim(a) = Ndim(b)

\* Dataset.shuffle(buffer_size) raises InvalidArgumentError unless
\* buffer_size is greater than zero.
CanShuffle(buffer_size) == buffer_size > 0

\* ---------------------------------------------------------------- augmentation
angles == <<-20, -10, -5, 5, 10, 20>>

\* what the interpolation of ndimage.rotate may produce for one voxel: any
\* value of [0, 1], or an overshoot below 0 or above 1
InterpVals == -1..(VScale + 1)

\* volume[volume < 0] = 0; volume[volume > 1] = 1
Clamp01(v) == IF v < 0 THEN 0 ELSE IF v > VScale THEN VScale ELSE v

\* scipy_rotate: rotate by `angle` (reshape=False keeps the shape; interp is
\* the interpolation's result, voxel by voxel), then clamp into [0, 1].
scipy_rotate(volume, angle, interp) == [i \in DOMAIN volume |-> Clamp01(interp[i])]

\* rotate: the numpy_function wrapper of scipy_rotate
rotate(volume, angle, interp) == scipy_rotate(volume, angle, interp)

\* tf.expand_dims(volume, axis=3): a trailing channel dimension of size 1
expand_dims(volume) == [i \in DOMAIN volume |-> <<volume[i]>>]

train_preprocessing(volume, label, angle, interp) ==
    <<expand_dims(rotate(volume, angle, interp)), label>>

\* a validation_preprocessing that augments too
validation_preprocessing_rot(volume, label, angle, interp) ==
    <<expand_dims(rotate(volume, angle, interp)), label>>
validation_preprocessing(volume, label, angle, interp) ==
    <<expand_dims(volume), label>>

\* tf.data.Dataset.from_tensor_slices((x, y)): the i-th element is (x[i], y[i])
from_tensor_slices(x, y) == [i \in 1..Min2(Len(x), Len(y)) |-> <<x[i], y[i]>>]

\* ---------------------------------------------------------------- normalize
min == -1000
max == 400

\* a clipping that forgets the upper bound
ClipLowOnly(v) == IF v < min THEN min ELSE v
\* volume[volume < min] = min; volume[volume > max] = max
Clip(v) == IF v < min THEN min ELSE IF v > max THEN max ELSE v

\* normalize: clip, then (volume - min) / (max - min); a value is the
\* fraction num / den (astype("float32") rounds it to the nearest float32,
\* which keeps 0, 1 and the order).
normalize(volume) ==
    [i \in DOMAIN volume |-> [num |-> Clip(volume[i]) - min, den |-> max - min]]

\* the Hounsfield values normalize is tried on
HUVals ==
    {min - d : d \in 1..HUMargin} \cup {max + d : d \in 1..HUMargin}
        \cup {min - 1000 * d : d \in 1..HUMargin} \cup {max + 1000 * d : d \in 1..HUMargin}
        \cup {min + (k * (max - min)) \div HUCuts : k \in 0..HUCuts}

\* ---------------------------------------------------------------- resize_volume
desired_depth == 64
desired_width == 128
desired_height == 128

\* current / desired, as a fraction <<numerator, denominator>>
Ratio(current, desired) == <<current, desired>>
\* 1 / r
Inverse(r) == <<r[2], r[1]>>

\* Python's round(): to the nearest integer, a tie to the even one; n / d >= 0
RoundHalfEven(n, d) ==
    LET q == n \div d
        r == n % d
    IN IF 2 * r < d THEN q
       ELSE IF 2 * r > d THEN q + 1
       ELSE IF q % 2 = 0 THEN q ELSE q + 1

\* ndimage.rotate(img, 90, reshape=True): the first two axes change places
RotateShapeReshaped(shape) == <<shape[2], shape[1], shape[3]>>
\* ndimage.rotate(img, 90, reshape=False): the shape of the input is kept
RotateShape(shape) == shape

\* ndimage.zoom: an axis of size n zoomed by factor comes out at
\* int(round(n * factor)); the product is computed in floating point, err away
\* from the exact value
ZoomDim(n, factor, err) ==
    RoundHalfEven((n * factor[1] * FixScale) \div factor[2] + err, FixScale)

resize_volume(shape, err) ==
    LET current_depth == shape[3]
        current_width == shape[1]
        current_height == shape[2]
        depth == Ratio(current_depth, desired_depth)
        width == Ratio(current_width, desired_width)
        height == Ratio(current_height, desired_height)
        depth_factor == Inverse(depth)
        width_factor == Inverse(width)
        height_factor == Inverse(height)
        img == RotateShape(shape)
    IN <<ZoomDim(img[1], width_factor, err[1]),
         ZoomDim(img[2], height_factor, err[2]),
         ZoomDim(img[3], depth_factor, err[3])>>

\* the sizes an input axis with target size t is tried at
DimVals(t) == (1..MaxDim) \cup {t - 1, t, t + 1, 4 * t}

\* ---------------------------------------------------------------- callbacks
\* a validation loss that is not a number
NaN == MaxLoss + 1
\* np.Inf, the initial ModelCheckpoint.best
Inf == MaxLoss + 2
\* -np.Inf, the initial EarlyStopping.best
NegInf == 0 - Inf

LossVals == (0..MaxLoss) \cup {NaN}
AccVals == {0, MaxAcc}

NoLogs == [val |-> FALSE]
NoFile == [exists |-> FALSE]

\* The parameters of the model are named by what the validation pass scored
\* for them: none yet, or the val_loss of the epoch that produced them.
Unscored == [scored |-> FALSE]
Scored(loss) == [scored |-> TRUE, val_loss |-> loss]

\* np.less_equal in place of np.less
LessEqual(a, b) == a # NaN /\ b # NaN /\ a <= b
\* np.less: ModelCheckpoint's monitor_op for val_loss (false on NaN)
Less(a, b) == a # NaN /\ b # NaN /\ a < b

\* np.greater_equal in place of np.greater
GreaterEqual(a, b) == a >= b
\* np.greater: EarlyStopping's monitor_op for val_acc
Greater(a, b) == a > b

\* EarlyStopping(patience=15)
patience == 15

class_names == <<"normal", "abnormal">>

\* the two scores in the other order
ScoresSwapped(p) == <<p, PScale - p>>
\* scores = [1 - prediction[0], prediction[0]]
Scores(p) == <<PScale - p, p>>

\* zip(scores, class_names)
Zip(a, b) == [i \in 1..Min2(Len(a), Len(b)) |-> <<a[i], b[i]>>]

\* ---------------------------------------------------------------- actions
\* lines 297-303: process every scan, label every scan
ProcessScans ==
    /\ pc = "listed"
    /\ abnormal_scans' = [i \in 1..Len(abnormal_scan_paths) |->
                              process_scan(abnormal_scan_paths[i])]
    /\ normal_scans' = [i \in 1..Len(normal_scan_paths) |->
                              process_scan(normal_scan_paths[i])]
    /\ abnormal_labels' = [i \in 1..Len(abnormal_scan_paths) |-> 1]
    /\ normal_labels' = [i \in 1..Len(normal_scan_paths) |-> 0]
    /\ pc' = "processed"
    /\ UNCHANGED <<normal_scan_paths, abnormal_scan_paths, x_train, y_train, x_val, y_val,
                   pipeVars, fitVars, fnVars>>

\* lines 305-313: the positional split; np.concatenate raises when exactly
\* one class is empty
SplitData ==
    /\ pc = "processed"
    /\ IF CanConcat(abnormal_scans, normal_scans)
       THEN /\ x_train' = Concat(TrainPart(abnormal_scans), TrainPart(normal_scans))
            /\ y_train' = ConcatLabels(TrainPart(abnormal_labels), TrainPart(normal_labels))
            /\ x_val' = Concat(ValPart(abnormal_scans), ValPart(normal_scans))
            /\ y_val' = ConcatLabels(ValPart(abnormal_labels), ValPart(normal_labels))
            /\ pc' = "split"
       ELSE /\ pc' = "failed"
            /\ UNCHANGED <<x_train, y_train, x_val, y_val>>
    /\ UNCHANGED <<normal_scan_paths, abnormal_scan_paths, abnormal_scans, normal_scans,
                   abnormal_labels, normal_labels, pipeVars, fitVars, fnVars>>

\* lines 322-339: the two data loaders and their pipelines; shuffle raises
\* on an empty partition
BuildDatasets ==
    /\ pc = "split"
    /\ IF CanShuffle(Len(x_train)) /\ CanShuffle(Len(x_val))
       THEN /\ train_loader' = from_tensor_slices(x_train, y_train)
            /\ validation_loader' = from_tensor_slices(x_val, y_val)
            /\ pc' = "datasets"
       ELSE /\ pc' = "failed"
            /\ UNCHANGED <<train_loader, validation_loader>>
    /\ UNCHANGED <<dataVars, elem, fitVars, fnVars>>

\* train_dataset yields one element: shuffle(len(x_train)) may bring any
\* element of the loader next, map applies train_preprocessing to it, batch
\* and prefetch pass it on whole.
TrainElement ==
    /\ pc = "datasets"
    /\ elem = NoElem
    /\ \E i \in DOMAIN train_loader, a \in DOMAIN angles, interp \in [VoxIdx -> InterpVals] :
          LET out == train_preprocessing(Voxels(train_loader[i][1]), train_loader[i][2],
                                         angles[a], interp)
          IN elem' = [part |-> "train", idx |-> i, angle |-> angles[a],
                      volume |-> out[1], label |-> out[2]]
    /\ UNCHANGED <<pc, dataVars, train_loader, validation_loader, fitVars, fnVars>>

\* validation_dataset yields one element.
ValidationElement ==
    /\ pc = "datasets"
    /\ elem = NoElem
    /\ \E i \in DOMAIN validation_loader, a \in DOMAIN angles,
          interp \in [VoxIdx -> InterpVals] :
          LET out == validation_preprocessing(Voxels(validation_loader[i][1]),
                                              validation_loader[i][2], angles[a], interp)
          IN elem' = [part |-> "validation", idx |-> i, angle |-> None,
                      volume |-> out[1], label |-> out[2]]
    /\ UNCHANGED <<pc, dataVars, train_loader, validation_loader, fitVars, fnVars>>

\* the fit loop takes the element the pipeline yielded
ConsumeElement ==
    /\ pc = "datasets"
    /\ elem # NoElem
    /\ elem' = NoElem
    /\ UNCHANGED <<pc, dataVars, train_loader, validation_loader, fitVars, fnVars>>

\* ---------------------------------------------------------------- training
\* what the run has reported: the losses that are numbers, the accuracies, and how many of the latest
\* epochs in a row did not improve on the best accuracy before them
Report(h, loss, acc) ==
    [losses |-> IF loss = NaN THEN h.losses ELSE h.losses \cup {loss},
     accs |-> h.accs \cup {acc},
     since |-> IF \A a \in h.accs : acc > a THEN 0 ELSE h.since + 1]

\* model.fit begins: on_train_begin of the callbacks, then the epoch loop
Fit ==
    /\ pc = "datasets"
    /\ epoch' = 0
    /\ wait' = 0
    /\ es_best' = NegInf
    /\ stop_training' = FALSE
    /\ pc' = IF max_epochs = 0 THEN "trained" ELSE "fit"
    /\ UNCHANGED <<dataVars, pipeVars, max_epochs, logs, ckpt_best, file, weights, history,
                   sample, prediction, report, fnVars>>

\* One epoch of model.fit with a validation pass: train on every batch,
\* evaluate the validation dataset, then on_epoch_end of checkpoint_cb and of
\* early_stopping_cb, then the loop's test of stop_training.
EpochEnd ==
    /\ pc = "fit"
    /\ \E loss \in LossVals, acc \in AccVals :
          /\ logs' = [val |-> TRUE, val_loss |-> loss, val_acc |-> acc]
          /\ history' = Report(history, loss, acc)
          \* ModelCheckpoint(save_best_only=True), monitor val_loss
          /\ IF Less(loss, ckpt_best)
             THEN /\ ckpt_best' = loss
                  /\ file' = [exists |-> TRUE, weights |-> Scored(loss),
                               writes |-> IF file.exists THEN file.writes + 1 ELSE 1]
             ELSE UNCHANGED <<ckpt_best, file>>
          \* EarlyStopping(monitor="val_acc", patience=15)
          /\ IF Greater(acc, es_best)
             THEN /\ es_best' = acc
                  /\ wait' = 0
                  /\ UNCHANGED stop_training
             ELSE /\ wait' = wait + 1
                  /\ stop_training' = (wait + 1 >= patience)
                  /\ UNCHANGED es_best
          /\ weights' = Scored(loss)
    /\ epoch' = epoch + 1
    /\ pc' = IF stop_training' \/ epoch + 1 >= max_epochs THEN "trained" ELSE "fit"
    /\ UNCHANGED <<dataVars, pipeVars, max_epochs, sample, prediction, report, fnVars>>

\* model.load_weights("3d_image_classification.h5")
LoadWeights ==
    /\ pc = "trained"
    /\ IF file.exists
       THEN /\ weights' = file.weights
            /\ pc' = "loaded"
       ELSE /\ pc' = "load_failed"
            /\ UNCHANGED weights
    /\ UNCHANGED <<dataVars, pipeVars, max_epochs, epoch, logs, ckpt_best, file, es_best,
                   wait, stop_training, history, sample, prediction, report, fnVars>>

\* lines 391-399: predict on x_val[0] and report the two scores
Predict ==
    /\ pc = "loaded"
    /\ \E p \in 0..PScale :
          /\ sample' = <<x_val[1]>>
          /\ prediction' = <<p>>
          /\ report' = Zip(Scores(p), class_names)
          /\ pc' = "done"
    /\ UNCHANGED <<dataVars, pipeVars, max_epochs, epoch, logs, ckpt_best, file, es_best,
                   wait, stop_training, weights, history, fnVars>>

\* ---------------------------------------------------------------- pure functions
Normalize ==
    /\ pc = "normalize"
    /\ volume_out' = normalize(volume_in)
    /\ pc' = "normalized"
    /\ UNCHANGED <<dataVars, pipeVars, fitVars, volume_in, img_shape, zoom_err, out_shape>>

ResizeVolume ==
    /\ pc = "resize"
    /\ out_shape' = resize_volume(img_shape, zoom_err)
    /\ pc' = "resized"
    /\ UNCHANGED <<dataVars, pipeVars, fitVars, volume_in, volume_out, img_shape, zoom_err>>

\* ---------------------------------------------------------------- specifications
\* nothing processed yet
InitArrays ==
    /\ abnormal_scans = <<>> /\ normal_scans = <<>>
    /\ abnormal_labels = <<>> /\ normal_labels = <<>>
    /\ x_train = <<>> /\ y_train = <<>> /\ x_val = <<>> /\ y_val = <<>>
    /\ train_loader = <<>> /\ validation_loader = <<>>
    /\ elem = NoElem

\* the callbacks as constructed, the model untrained, no checkpoint file
InitFit ==
    /\ epoch = 0
    /\ logs = NoLogs
    /\ ckpt_best = Inf
    /\ file = NoFile
    /\ es_best = NegInf
    /\ wait = 0
    /\ stop_training = FALSE
    /\ weights = Unscored
    /\ history = [losses |-> {}, accs |-> {}, since |-> 0]
    /\ sample = <<>> /\ prediction = <<>> /\ report = <<>>

\* no call of normalize or resize_volume under way
InitFn ==
    /\ volume_in = <<>> /\ volume_out = <<>>
    /\ img_shape = <<>> /\ zoom_err = <<>> /\ out_shape = <<>>

\* the script starts: the class directories hold counts-many scans each
InitData(counts, epochs) ==
    /\ pc = "listed"
    /\ \E nA \in counts, nN \in counts :
          /\ abnormal_scan_paths = ListDir("CT-23", nA)
          /\ normal_scan_paths = ListDir("CT-0", nN)
    /\ max_epochs \in epochs
    /\ InitArrays /\ InitFit /\ InitFn

\* the dataset build, for every pair of class sizes up to MaxScans
InitSplit == InitData(0..MaxScans, {MaxEpochs})
NextSplit == ProcessScans \/ SplitData \/ BuildDatasets
SpecSplit == InitSplit /\ [][NextSplit]_vars

\* the dataset pipelines, for class sizes around the split index
PipeCounts == {0} \cup ((SplitAt - 1)..(SplitAt + PipeExtra))
InitPipe == InitData(PipeCounts, {MaxEpochs})
NextPipe ==
    \/ ProcessScans \/ SplitData \/ BuildDatasets
    \/ TrainElement \/ ValidationElement \/ ConsumeElement
SpecPipe == InitPipe /\ [][NextPipe]_vars

\* training and prediction, for class sizes at and just above the split index
FitCounts == {SplitAt, SplitAt + 1}
FitEpochs == {0, 1, MaxEpochs}
InitTrain == InitData(FitCounts, FitEpochs)
NextTrain ==
    \/ ProcessScans \/ SplitData \/ BuildDatasets
    \/ Fit \/ EpochEnd
    \/ LoadWeights \/ Predict
SpecTrain == InitTrain /\ [][NextTrain]_vars

\* normalize, on volumes of two voxels
InitNormalize ==
    /\ pc = "normalize"
    /\ abnormal_scan_paths = <<>> /\ normal_scan_paths = <<>>
    /\ max_epochs = 0
    /\ InitArrays /\ InitFit
    /\ volume_in \in [VoxIdx -> HUVals]
    /\ volume_out = <<>>
    /\ img_shape = <<>> /\ zoom_err = <<>> /\ out_shape = <<>>
NextNormalize == Normalize
SpecNormalize == InitNormalize /\ [][NextNormalize]_vars

\* resize_volume, on the shapes of DimVals
InitResize ==
    /\ pc = "resize"
    /\ abnormal_scan_paths = <<>> /\ normal_scan_paths = <<>>
    /\ max_epochs = 0
    /\ InitArrays /\ InitFit
    /\ volume_in = <<>> /\ volume_out = <<>>
    /\ \E h \in DimVals(desired_height), w \in DimVals(desired_width),
          d \in DimVals(desired_depth) : img_shape = <<w, h, d>>
    /\ zoom_err \in [1..3 -> (0 - FloatErr)..FloatErr]
    /\ out_shape = <<>>
NextResize == ResizeVolume
SpecResize == InitResize /\ [][NextResize]_vars

\* ---------------------------------------------------------------- the split (C1, C9)
Range(f) == {f[i] : i \in DOMAIN f}

\* the volumes of a class directory, read at positions lo..hi of its listing
ClassVolumes(paths, lo, hi) == {[of |-> paths[i]] : i \in {j \in DOMAIN paths : lo <= j /\ j <= hi}}

AllVolumes ==
    ClassVolumes(abnormal_scan_paths, 1, Len(abnormal_scan_paths))
        \cup ClassVolumes(normal_scan_paths, 1, Len(normal_scan_paths))

SplitDone == pc \in {"split", "datasets"}

HasClass(xs, dir) == \E i \in DOMAIN xs : xs[i].of.dir = dir

ShortBesideLong(short, long) == Len(short) >= 1 /\ Len(short) < 70 /\ Len(long) > 70

LabelOf(volume) == IF volume.of.dir = "CT-23" THEN 1 ELSE 0

Aligned(xs, ys) ==
    /\ Len(xs) = Len(ys)
    /\ \A i \in DOMAIN xs :
          /\ ys[i] = 1 <=> xs[i].of.dir = "CT-23"
          /\ ys[i] = 0 <=> xs[i].of.dir = "CT-0"

\* the array an element of a pipeline was sliced from
SourceOf(e) == IF e.part = "train" THEN x_train[e.idx] ELSE x_val[e.idx]

\* C10: in both partitions the label at index i is 1 exactly for a CT-23
\* volume and 0 exactly for a CT-0 volume, and an element a pipeline yields
\* (after shuffle and map) carries the label of the volume it was made from.
C10_LabelsAligned ==
    /\ SplitDone => Aligned(x_train, y_train) /\ Aligned(x_val, y_val)
    /\ elem # NoElem => elem.label = LabelOf(SourceOf(elem))

\* with 69 abnormal scans the training pipeline yielded the element made
\* from x_train[69], the first normal volume, with the label 0
C10_Witness ==
    /\ elem # NoElem
    /\ elem.part = "train"
    /\ Len(abnormal_scan_paths) = 69
    /\ elem.idx = 70
    /\ elem.label = 0

\* C6: an element of the validation pipeline is the source volume with a
\* trailing channel dimension and nothing else (no rotation angle was drawn,
\* every voxel keeps its value); an element of the training pipeline went
\* through the rotation (an angle of the list, values clamped into [0, 1]);
\* both keep the label the loader paired with the volume.
C6_AugmentTrainOnly ==
    elem # NoElem =>
        /\ elem.part = "validation" =>
              /\ elem.angle = None
              /\ DOMAIN elem.volume = VoxIdx
              /\ \A i \in VoxIdx : elem.volume[i] = <<Voxels(x_val[elem.idx])[i]>>
              /\ elem.label = y_val[elem.idx]
        /\ elem.part = "train" =>
              /\ elem.angle \in Range(angles)
              /\ DOMAIN elem.volume = VoxIdx
              /\ \A i \in VoxIdx : \E v \in 0..VScale : elem.volume[i] = <<v>>
              /\ elem.label = y_train[elem.idx]

\* a validation volume with a voxel that is not 0 reached the model
C6_Witness ==
    /\ elem # NoElem
    /\ elem.part = "validation"
    /\ \E i \in VoxIdx : elem.volume[i] # <<0>>

\* ---------------------------------------------------------------- training (C2, C3, C4, C5)
\* C2: a step writes the checkpoint file exactly when it is the end of an
\* epoch whose validation loss is a number below every validation loss the
\* earlier epochs of the run reported; and the validation loss of a newly
\* written checkpoint is never above that of the checkpoint it replaces.
C2_CheckpointIffImproves ==
    /\ [][(file' # file) <=>
             (/\ epoch' = epoch + 1
              /\ logs'.val
              /\ logs'.val_loss # NaN
              /\ \A l \in history.losses : logs'.val_loss < l)]_vars
    /\ [][(file' # file /\ file.exists) =>
             file'.weights.val_loss <= file.weights.val_loss]_vars

\* the checkpoint was written twice, and a later epoch with a higher loss
\* left it alone
C2_Witness ==
    /\ file.exists
    /\ file.writes = 2
    /\ logs.val
    /\ logs.val_loss # NaN
    /\ logs.val_loss > file.weights.val_loss

FitOver == pc \in {"trained", "loaded", "done", "load_failed"}

\* C3: the loop is stopped early exactly when the 15 latest epochs in a row
\* reported a validation accuracy not above the best before them; it stops at
\* the end of the 15th (no further epoch runs), an improving epoch sets the
\* count back to 0, and a loop that ended before max_epochs was stopped so.
C3_EarlyStopping ==
    /\ stop_training <=> history.since >= 15
    /\ stop_training => history.since = 15 /\ pc # "fit"
    /\ wait = history.since
    /\ (FitOver /\ epoch < max_epochs) => stop_training

\* the loop was stopped before max_epochs at the end of epoch 17: the
\* accuracy improved in epoch 2 and then did not for 15 epochs
C3_Witness ==
    /\ stop_training
    /\ epoch = 17
    /\ epoch < max_epochs

\* C4 as claimed: when the loop has ended after at least one completed epoch,
\* the checkpoint file exists.
C4_CheckpointAvailable ==
    (FitOver /\ epoch >= 1) => file.exists

\* C5: when the prediction is reported, the model holds the parameters of the
\* checkpoint file, which are those with the lowest validation loss of the
\* run; the volume predicted on is x_val[0] and is no training volume; the
\* score reported for "abnormal" is the model output p, the score for
\* "normal" is 1 - p, and the two add up to 1.
C5_Prediction ==
    pc = "done" =>
        /\ file.exists
        /\ weights = file.weights
        /\ weights.scored
        /\ weights.val_loss \in history.losses
        /\ \A l \in history.losses : weights.val_loss <= l
        /\ sample = <<x_val[1]>>
        /\ sample[1] \notin Range(x_train)
        /\ Len(prediction) = 1
        /\ Len(report) = 2
        /\ \E i \in 1..2 : report[i] = <<prediction[1], "abnormal">>
        /\ \E i \in 1..2 : report[i] = <<PScale - prediction[1], "normal">>
        /\ report[1][1] + report[2][1] = PScale

\* a prediction was reported with two different scores, by parameters
\* reloaded from a checkpoint that is not the last epoch's
C5_Witness ==
    /\ pc = "done"
    /\ 2 * prediction[1] # PScale
    /\ logs.val
    /\ weights # Scored(logs.val_loss)

\* ---------------------------------------------------------------- normalize (C7)
ClipRef(v) == IF v < -1000 THEN -1000 ELSE IF v > 400 THEN 400 ELSE v

\* C7: every voxel v comes out as (clip(v, -1000, 400) + 1000) / 1400, within
\* [0, 1], as 0 when v <= -1000 and as 1 when v >= 400, and a voxel that is
\* not above another does not come out above it.
C7_Normalize ==
    pc = "normalized" =>
        /\ DOMAIN volume_out = DOMAIN volume_in
        /\ \A i \in DOMAIN volume_in :
              /\ volume_out[i].den > 0
              /\ volume_out[i].num * 1400 = (ClipRef(volume_in[i]) + 1000) * volume_out[i].den
              /\ 0 <= volume_out[i].num /\ volume_out[i].num <= volume_out[i].den
              /\ volume_in[i] <= -1000 => volume_out[i].num = 0
              /\ volume_in[i] >= 400 => volume_out[i].num = volume_out[i].den
        /\ \A i, j \in DOMAIN volume_in :
              volume_in[i] <= volume_in[j] =>
                  volume_out[i].num * volume_out[j].den <= volume_out[j].num * volume_out[i].den

\* a volume with a voxel below -1000 and a voxel above 400 was normalized
C7_Witness ==
    /\ pc = "normalized"
    /\ \E i, j \in DOMAIN volume_in : volume_in[i] < -1000 /\ volume_in[j] > 400

\* ---------------------------------------------------------------- resize_volume (C8)
\* C8: whatever the input shape, the result has the shape (128, 128, 64).
C8_ResizeShape ==
    pc = "resized" => out_shape = <<128, 128, 64>>

\* a volume whose first two axes differ and whose sizes neither divide the
\* target nor are multiples of it was resized, with a rounding error
C8_Witness ==
    /\ pc = "resized"
    /\ img_shape = <<127, 3, 65>>
    /\ \E i \in 1..3 : zoom_err[i] # 0

====
